---------------------------- MODULE Spec2Model ----------------------------
(***************************************************************************)
(* Bloom filter index library (bf_index.c, bloomf_wrapper.cpp).            *)
(*                                                                         *)
(* The facade (bfi_* functions) and the C wrapper (bf_* functions) are     *)
(* translated from the sources.  The C++ class behind the wrapper          *)
(* (BloomFilter.hpp: bloom_parameters, bloom_filter) is not part of the    *)
(* sources at hand; its methods are modelled from the specification text   *)
(* and carry lower-case names without the bf_ / bfi_ prefix.               *)
(*                                                                         *)
(* A filter object is a record [m, salt, bits, cnt]:                       *)
(*   m    table_size_bits, salt  the sequence of per-hash seeds,           *)
(*   bits the set of positions whose bit is 1, cnt inserted_element_count. *)
(* A key (the buffer/len pair handed to the facade) is a one-byte string,  *)
(* named by the value of its byte.                                         *)
(***************************************************************************)
EXTENDS Integers, Sequences, FiniteSets, TLC

(***************************************************************************)
(* Bounds of the model.                                                    *)
(***************************************************************************)
NumItems == 2
MaxObj   == 2
MaxLeak  == 2
MaxBp    == 1

Items   == 1..NumItems
IOItems == {1}
ObjIds  == 1..MaxObj

(***************************************************************************)
(* Program constants.                                                      *)
(***************************************************************************)
NULL == 0

BFI_E_OK             == 0
BFI_E_BP_COMP_PARAMS == 1
BFI_E_NO_INDEX       == 2
BFI_E_STO_FILE_ERR   == 3
BFI_E_STO_BYTES      == 4
BFI_E_STO_MAGIC      == 5
BFI_E_STO_IDX_LEN    == 6
BFI_E_STO_INDEX      == 7
BFI_E_LOAD_MEM       == 8
BFI_E_LOAD_FILE_ERR  == 9
BFI_E_LOAD_BYTES     == 10
BFI_E_LOAD_MAGIC     == 11
BFI_E_LOAD_BAD_MAGIC == 12
BFI_E_LOAD_IDX_LEN   == 13
BFI_E_LOAD_ZERO_LEN  == 14
BFI_E_LOAD_INDEX     == 15

\* The format magic (bf_index_internal.h of the handle-based API).
BFI_MAGIC == 48879
BFI_FILE_MAGIC == BFI_MAGIC

\* sizeof(uint16_t), sizeof(uint32_t): the widths of the two header fields.
SizeofU16 == 2
SizeofU32 == 4

Pow2_16 == 65536

(***************************************************************************)
(* Fixed-width integers in files: fwrite/fread of the object bytes, in the *)
(* byte order of the build (little-endian).                                *)
(***************************************************************************)
RECURSIVE WriteLE(_, _)
WriteLE(n, w) == IF w = 0 THEN <<>> ELSE <<n % 256>> \o WriteLE(n \div 256, w - 1)

RECURSIVE ReadLE(_)
ReadLE(s) == IF s = <<>> THEN 0 ELSE Head(s) + 256 * ReadLE(Tail(s))

Take(s, n) == SubSeq(s, 1, IF n < Len(s) THEN n ELSE Len(s))
Drop(s, n) == SubSeq(s, n + 1, Len(s))

RECURSIVE Concat(_)
Concat(ss) == IF ss = <<>> THEN <<>> ELSE Head(ss) \o Concat(Tail(ss))

(***************************************************************************)
(* Parameter optimizer (bloom_parameters::compute_optimal_parameters).     *)
(* fp_prob is given in percent; -ln(p)/(ln 2)^2 and ln 2 are tabulated in  *)
(* thousandths.                                                            *)
(***************************************************************************)
EstItemCnts == {0, 2, 8}
FpProbs     == {0, 50, 100}

MaxSupportedHashes == 32
MinTableBits == 8
Ln2Milli == 693
SaltSeed == 21
SaltMul  == 75
SaltInc  == 74
SaltMod  == 65537
HashMul  == 24747

BitsPerItemMilli(p) ==
    CASE p = 1  -> 9585
      [] p = 10 -> 4793
      [] p = 50 -> 1443

CeilDiv(a, b) == (a + b - 1) \div b

OptimalTableSize(n, p) ==
    LET raw == CeilDiv(n * BitsPerItemMilli(p), 1000)
        m8  == 8 * CeilDiv(raw, 8)
    IN  IF m8 < MinTableBits THEN MinTableBits ELSE m8

OptimalHashCount(n, m) ==
    LET k == (2 * m * Ln2Milli + n * 1000) \div (2 * n * 1000)
    IN  IF k < 1 THEN 1 ELSE IF k > MaxSupportedHashes THEN MaxSupportedHashes ELSE k

RECURSIVE SaltStream(_)
SaltStream(i) == IF i = 0 THEN SaltSeed ELSE (SaltStream(i - 1) * SaltMul + SaltInc) % SaltMod

GenerateSalts(k) == [i \in 1..k |-> SaltStream(i)]

\* [ok, m, salt]: ok is the boolean compute_optimal_parameters returns.
compute_optimal_parameters(n, p) ==
    IF n = 0 \/ p <= 0 \/ p >= 100
    THEN [ok |-> FALSE, m |-> 0, salt |-> <<>>]
    ELSE LET m == OptimalTableSize(n, p)
         IN  [ok |-> TRUE, m |-> m, salt |-> GenerateSalts(OptimalHashCount(n, m))]

(***************************************************************************)
(* The filter engine (class bloom_filter).                                 *)
(***************************************************************************)
\* bloom_filter(): the parameter-less object made by new_bloom_filter().
EmptyFilter == [m |-> 0, salt |-> <<>>, bits |-> {}, cnt |-> 0]

\* bloom_filter(const bloom_parameters&)
FilterFromParams(bp) == [m |-> bp.m, salt |-> bp.salt, bits |-> {}, cnt |-> 0]

\* A multiplicative hash of the key byte seeded by the salt (16-bit arithmetic,
\* the upper byte taken), reduced modulo the table size by hash_all.
Hash(x, s) == ((((s + x) % Pow2_16) * HashMul) % Pow2_16) \div 256

hash_all(x, salts, m) == {Hash(x, salts[i]) % m : i \in 1..Len(salts)}

Positions(f, x) == hash_all(x, f.salt, f.m)

contains(f, x) == Positions(f, x) \subseteq f.bits

insert(f, x) == [f EXCEPT !.bits = @ \cup Positions(f, x)]

\* [f, r]: the filter afterwards and the boolean returned.
containsinsert(f, x) ==
    IF contains(f, x)
    THEN [f |-> f, r |-> TRUE]
    ELSE [f |-> [f EXCEPT !.bits = @ \cup Positions(f, x),
                          !.cnt  = @ + 1],
          r |-> FALSE]

clear(f) == [f EXCEPT !.bits = {}, !.cnt = 0]

get_inserted_element_count(f) == f.cnt

(***************************************************************************)
(* Serialized representation of a filter: table_size_bits (u64),           *)
(* hash_function_count (u32), the salts (u32 each),                        *)
(* inserted_element_count (u64), the bit array packed 8 bits per byte,     *)
(* least significant bit first.                                            *)
(***************************************************************************)
BitWeight(bits, j, i) == IF (8 * j + i) \in bits THEN 2 ^ i ELSE 0

PackByte(bits, j) ==
    BitWeight(bits, j, 0) + BitWeight(bits, j, 1) + BitWeight(bits, j, 2)
  + BitWeight(bits, j, 3) + BitWeight(bits, j, 4) + BitWeight(bits, j, 5)
  + BitWeight(bits, j, 6) + BitWeight(bits, j, 7)

PackBits(bits, m) == [j \in 1..CeilDiv(m, 8) |-> PackByte(bits, j - 1)]

UnpackBits(bytes, m) ==
    {i \in 0..(m - 1) : (bytes[(i \div 8) + 1] \div (2 ^ (i % 8))) % 2 = 1}

PayloadSize(m, k) == 8 + 4 + 4 * k + 8 + CeilDiv(m, 8)

\* The bytes get_filter_as_bytes hands out; none for a filter without table.
filter_as_bytes(f) ==
    IF f.m = 0 THEN <<>>
    ELSE WriteLE(f.m, 8) \o WriteLE(Len(f.salt), 4)
         \o Concat([i \in 1..Len(f.salt) |-> WriteLE(f.salt[i], 4)])
         \o WriteLE(f.cnt, 8) \o PackBits(f.bits, f.m)

\* [rc, f]: rc = 0 and the rebuilt filter, or rc # 0 for a malformed payload.
load_filter_from_bytes(buff, len) ==
    LET b == Take(buff, len)
        m == ReadLE(SubSeq(b, 1, 8))
        k == ReadLE(SubSeq(b, 9, 12))
    IN  IF Len(b) < 12 \/ m = 0 \/ k = 0 \/ Len(b) # PayloadSize(m, k)
        THEN [rc |-> 1, f |-> EmptyFilter]
        ELSE [rc |-> 0,
              f  |-> [m    |-> m,
                      salt |-> [i \in 1..k |-> ReadLE(SubSeq(b, 13 + 4 * (i - 1), 12 + 4 * i))],
                      cnt  |-> ReadLE(SubSeq(b, 13 + 4 * k, 20 + 4 * k)),
                      bits |-> UnpackBits(Drop(b, 20 + 4 * k), m)]]

(***************************************************************************)
(* The C wrapper (bloomf_wrapper.cpp): each function forwards to the       *)
(* method of the same name.                                                *)
(***************************************************************************)
bp_compute_optimal_parameters(n, p) == compute_optimal_parameters(n, p)

new_bloom_filter == EmptyFilter

new_bloom_filter_bp(bp) == FilterFromParams(bp)

bf_clear(f) == clear(f)

bf_contains(f, x) == contains(f, x)

\* Faulty variant: insert that counts every call.
bf_insert_counting(f, x) == [insert(f, x) EXCEPT !.cnt = @ + 1]

\* Faulty variant: insert that flips the bits of the key instead of setting them.
bf_insert_toggle(f, x) ==
    [f EXCEPT !.bits = (@ \ Positions(f, x)) \cup (Positions(f, x) \ @)]

bf_insert(f, x) == insert(f, x)

\* Faulty variant: containsinsert that counts every call.
bf_containsinsert_counting(f, x) ==
    [f |-> [insert(f, x) EXCEPT !.cnt = @ + 1], r |-> contains(f, x)]

bf_containsinsert(f, x) == containsinsert(f, x)

bf_get_inserted_element_cnt(f) == get_inserted_element_count(f)

\* [len, bytes]: the uint32_t returned and the buffer handed out.
bf_get_filter_as_bytes(f) ==
    LET bytes == filter_as_bytes(f) IN [len |-> Len(bytes), bytes |-> bytes]

bf_load_filter_from_bytes(buff, len) == load_filter_from_bytes(buff, len)

\* Faulty variant: bf_clear called where bf_clear_bytes was meant.
bf_clear_bytes_as_clear(f) == clear(f)

\* The filter after its byte buffer was handed back: the buffer is released,
\* the filter keeps its table, salts and count.
bf_clear_bytes(f) == [m |-> f.m, salt |-> f.salt, bits |-> f.bits, cnt |-> f.cnt]

(***************************************************************************)
(* State.                                                                  *)
(*   handle     the caller's bfi_index_ptr_t variable: NULL or an object   *)
(*   objs       allocation status of every filter object                   *)
(*   filt       contents of the object the handle designates (an object no *)
(*              handle designates can no longer be read or written, so     *)
(*              only its allocation status is kept)                        *)
(*   file       the bytes of the index file, or NoFile                     *)
(*   open_files, live_bufs, live_bp                                        *)
(*              FILE streams, byte buffers and bloom_parameters objects    *)
(*              the library holds                                          *)
(*   ub         a freed object was used: behaviour is undefined from there *)
(*   last       the last call: operation, key, and what it returned        *)
(*   fsrc, hist history of the file and of the designated filter           *)
(*   mt         threads of the caller inside bfi_add_addr_index, and the   *)
(*              lock the caller may put around it                          *)
(*   big        a filter of a size that is only counted, never held: its   *)
(*              estimated item count, table size and what a store wrote    *)
(***************************************************************************)
VARIABLES handle, objs, filt, file, open_files, live_bufs, live_bp, ub,
          last, fsrc, hist, mt, big

vars == <<handle, objs, filt, file, open_files, live_bufs, live_bp, ub,
          last, fsrc, hist, mt, big>>

NoFile == <<-1>>

\* A call: the operation, its key, the code and the boolean it returned, and
\* n: the count returned (for an insert: 1 when it repeats the call before it).
Call(op, x, ecode, b, n) == [op |-> op, x |-> x, ecode |-> ecode, b |-> b, n |-> n]

\* History of the designated filter since it was created or last cleared:
\*   ins    keys handed to add or insert
\*   exact  it started empty and saw only adds, none of them of a new key
\*          whose positions were all set already
\*   adds   keys handed to add (kept while exact holds)
\*   nfalse containsinsert calls that returned false
\*   base   inserted_element_count it started with
NewHist(exact, base) ==
    [ins |-> {}, adds |-> {}, exact |-> exact, nfalse |-> 0, base |-> base]

\* History of the file: how its contents came about ("none", "stored" by a
\* complete store, "partial" from a store that gave up, "unflushed" from a
\* store that returned BFI_E_OK although the flush of fclose failed,
\* "foreign" when put there by someone else) and the filter the store was
\* writing.
FileSrc(kind, f) == [kind |-> kind, f |-> f]

\* The caller's threads.
Threads == {1, 2}

\* One thread inside an add: where it is with the table bits (pc), its key,
\* the hash it works on, the table byte it has read, and where it is with the
\* count (cpc) and the count it has read.
IdleThread ==
    [pc |-> "idle", x |-> 0, i |-> 0, tmp |-> {}, cpc |-> "none", tmpc |-> 0]

\* No thread is inside the library; lock is the thread holding the caller's
\* lock (0: free), added the keys whose add has returned, begun the adds
\* begun, exact whether no add of a new key found all its positions set
\* already, raced whether the adds made before the lock was taken into use
\* left a count different from the number of distinct keys added.
NoThreads ==
    [use_lock |-> FALSE, lock |-> 0, thr |-> [t \in Threads |-> IdleThread],
     added |-> {}, begun |-> 0, exact |-> TRUE, raced |-> FALSE]

NoBig == [stage |-> "none"]

Live     == handle # NULL /\ objs[handle] = "live"
Dangling == handle # NULL /\ objs[handle] = "freed"

Allocated == {i \in ObjIds : objs[i] # "unalloc"}
CanAlloc  == Cardinality(Allocated) < MaxObj
NewId     == Cardinality(Allocated) + 1

Init ==
    /\ handle = NULL
    /\ objs = [i \in ObjIds |-> "unalloc"]
    /\ filt = EmptyFilter
    /\ file = NoFile
    /\ open_files = 0
    /\ live_bufs = 0
    /\ live_bp = 0
    /\ ub = FALSE
    /\ last = Call("none", 0, BFI_E_OK, FALSE, 0)
    /\ fsrc = FileSrc("none", EmptyFilter)
    /\ hist = NewHist(FALSE, 0)
    /\ mt = NoThreads
    /\ big = NoBig

(***************************************************************************)
(* The facade (bf_index.c, handle-based API).  Each function is an         *)
(* operator from its arguments and the state it reads to a record of what  *)
(* it returns and what it leaves behind.                                   *)
(***************************************************************************)
\* [ecode, handle, created, filt, bp]: bp counts the parameter objects left.
bfi_init_index(h, est_item_cnt, fp_prob, new) ==
    LET bp == bp_compute_optimal_parameters(est_item_cnt, fp_prob)
    IN  IF ~bp.ok
        THEN [ecode |-> BFI_E_BP_COMP_PARAMS, handle |-> h, created |-> FALSE,
              filt |-> EmptyFilter, bp |-> 1]
        ELSE [ecode |-> BFI_E_OK, handle |-> new, created |-> TRUE,
              filt |-> new_bloom_filter_bp(bp), bp |-> 0]

\* [handle, deleted]: the handle afterwards and the object handed to delete.
bfi_destroy_index(h) == [handle |-> h, deleted |-> h]

\* Faulty variant: insert() used instead of containsinsert().
bfi_add_addr_index_insert(h, f, x) ==
    IF h = NULL
    THEN [ecode |-> BFI_E_NO_INDEX, filt |-> f, r |-> FALSE]
    ELSE [ecode |-> BFI_E_OK, filt |-> bf_insert(f, x), r |-> bf_contains(f, x)]

\* [ecode, filt, r]: r is what bf_containsinsert returned (dropped by the facade).
bfi_add_addr_index(h, f, x) ==
    IF h = NULL
    THEN [ecode |-> BFI_E_NO_INDEX, filt |-> f, r |-> FALSE]
    ELSE LET o == bf_containsinsert(f, x)
         IN  [ecode |-> BFI_E_OK, filt |-> o.f, r |-> o.r]

\* Faulty variant: the NULL test inverted.
bfi_clear_index_inverted(h, f) ==
    IF h # NULL
    THEN [ecode |-> BFI_E_NO_INDEX, filt |-> f]
    ELSE [ecode |-> BFI_E_OK, filt |-> bf_clear(f)]

bfi_clear_index(h, f) ==
    IF h = NULL
    THEN [ecode |-> BFI_E_NO_INDEX, filt |-> f]
    ELSE [ecode |-> BFI_E_OK, filt |-> bf_clear(f)]

\* Faulty variant: the NULL test inverted.
bfi_addr_is_stored_inverted(h, f, x) == IF h = NULL THEN bf_contains(f, x) ELSE FALSE

bfi_addr_is_stored(h, f, x) == IF h # NULL THEN bf_contains(f, x) ELSE FALSE

\* The values of bfi_ecode_t.
ECodes == BFI_E_OK..BFI_E_LOAD_INDEX

\* The message table (bf_index_internal.h).
bfi_error_messages ==
    <<"OK", "Index error", "Bloom filter error", "Memory error", "File error">>

\* [defined, msgs]: bfi_error_messages[ecode].  An index past the last entry
\* reads behind the array: the behaviour is undefined, any pointer may come
\* back.
bfi_get_error_msg(ecode) ==
    IF ecode < Len(bfi_error_messages)
    THEN [defined |-> TRUE, msgs |-> {bfi_error_messages[ecode + 1]}]
    ELSE [defined |-> FALSE,
          msgs |-> {bfi_error_messages[i] : i \in DOMAIN bfi_error_messages}
                   \cup {"<not a string>"}]

\* Faulty variant: the NULL test inverted.
bfi_stored_item_cnt_inverted(h, f) ==
    IF h # NULL THEN 0 ELSE bf_get_inserted_element_cnt(f)

bfi_stored_item_cnt(h, f) == IF h = NULL THEN 0 ELSE bf_get_inserted_element_cnt(f)

\* The record a complete store writes.
Record(f) ==
    LET o == bf_get_filter_as_bytes(f)
    IN  WriteLE(BFI_FILE_MAGIC, SizeofU16) \o WriteLE(o.len, SizeofU32)
        \o Take(o.bytes, o.len)

\* Faulty variant: the length written before the magic.
bfi_store_index_lenfirst(h, f, fl, fopen_ok, wfail) ==
    IF h = NULL
    THEN [ecode |-> BFI_E_NO_INDEX, file |-> fl, done |-> TRUE,
          filt |-> f, files |-> 0, bufs |-> 0]
    ELSE IF ~fopen_ok
    THEN [ecode |-> BFI_E_STO_FILE_ERR, file |-> fl, done |-> TRUE,
          filt |-> f, files |-> 0, bufs |-> 0]
    ELSE LET o == bf_get_filter_as_bytes(f)
             magic == WriteLE(BFI_FILE_MAGIC, SizeofU16)
             len == WriteLE(o.len, SizeofU32)
         IN  IF o.len = 0
             THEN [ecode |-> BFI_E_STO_BYTES, file |-> <<>>, done |-> TRUE,
                   filt |-> f, files |-> 1, bufs |-> 0]
             ELSE IF wfail = "len"
             THEN [ecode |-> BFI_E_STO_IDX_LEN, file |-> len, done |-> FALSE,
                   filt |-> f, files |-> 1, bufs |-> 1]
             ELSE IF wfail = "magic"
             THEN [ecode |-> BFI_E_STO_MAGIC, file |-> len \o magic, done |-> FALSE,
                   filt |-> f, files |-> 1, bufs |-> 1]
             ELSE IF wfail = "index"
             THEN [ecode |-> BFI_E_STO_INDEX,
                   file |-> len \o magic \o Take(o.bytes, o.len), done |-> FALSE,
                   filt |-> f, files |-> 1, bufs |-> 1]
             ELSE IF wfail = "close"
             THEN [ecode |-> BFI_E_OK,
                   file |-> len \o magic \o Take(o.bytes, o.len), done |-> FALSE,
                   filt |-> f, files |-> 0, bufs |-> 0]
             ELSE [ecode |-> BFI_E_OK,
                   file |-> len \o magic \o Take(o.bytes, o.len), done |-> TRUE,
                   filt |-> f, files |-> 0, bufs |-> 0]

\* Faulty variant: the file is opened before the handle is looked at.
bfi_store_index_openfirst(h, f, fl, fopen_ok, wfail) ==
    IF ~fopen_ok
    THEN [ecode |-> BFI_E_STO_FILE_ERR, file |-> fl, done |-> TRUE,
          filt |-> f, files |-> 0, bufs |-> 0]
    ELSE IF h = NULL
    THEN [ecode |-> BFI_E_NO_INDEX, file |-> <<>>, done |-> TRUE,
          filt |-> f, files |-> 1, bufs |-> 0]
    ELSE LET o == bf_get_filter_as_bytes(f)
             magic == WriteLE(BFI_FILE_MAGIC, SizeofU16)
             len == WriteLE(o.len, SizeofU32)
         IN  IF o.len = 0
             THEN [ecode |-> BFI_E_STO_BYTES, file |-> <<>>, done |-> TRUE,
                   filt |-> f, files |-> 1, bufs |-> 0]
             ELSE IF wfail = "magic"
             THEN [ecode |-> BFI_E_STO_MAGIC, file |-> magic, done |-> FALSE,
                   filt |-> f, files |-> 1, bufs |-> 1]
             ELSE IF wfail = "len"
             THEN [ecode |-> BFI_E_STO_IDX_LEN, file |-> magic \o len, done |-> FALSE,
                   filt |-> f, files |-> 1, bufs |-> 1]
             ELSE IF wfail = "index"
             THEN [ecode |-> BFI_E_STO_INDEX,
                   file |-> magic \o len \o Take(o.bytes, o.len), done |-> FALSE,
                   filt |-> f, files |-> 1, bufs |-> 1]
             ELSE IF wfail = "close"
             THEN [ecode |-> BFI_E_OK,
                   file |-> magic \o len \o Take(o.bytes, o.len), done |-> FALSE,
                   filt |-> bf_clear_bytes(f), files |-> 0, bufs |-> 0]
             ELSE [ecode |-> BFI_E_OK,
                   file |-> magic \o len \o Take(o.bytes, o.len), done |-> TRUE,
                   filt |-> bf_clear_bytes(f), files |-> 0, bufs |-> 0]

\* [ecode, file, done, filt, files, bufs]: the bytes the file holds once everything
\* handed to fwrite has reached it, whether all of it has (the stream was
\* closed and its flush succeeded), and the streams and buffers left.
\* fopen_ok: fopen succeeds; wfail: the call that fails: an fwrite ("magic",
\* "len", "index"), the flush inside fclose ("close"), or none.  The result
\* of fclose is not looked at: the store returns BFI_E_OK either way.
bfi_store_index(h, f, fl, fopen_ok, wfail) ==
    IF h = NULL
    THEN [ecode |-> BFI_E_NO_INDEX, file |-> fl, done |-> TRUE,
          filt |-> f, files |-> 0, bufs |-> 0]
    ELSE IF ~fopen_ok
    THEN [ecode |-> BFI_E_STO_FILE_ERR, file |-> fl, done |-> TRUE,
          filt |-> f, files |-> 0, bufs |-> 0]
    ELSE LET o == bf_get_filter_as_bytes(f)
             magic == WriteLE(BFI_FILE_MAGIC, SizeofU16)
             len == WriteLE(o.len, SizeofU32)
         IN  IF o.len = 0
             THEN [ecode |-> BFI_E_STO_BYTES, file |-> <<>>, done |-> TRUE,
                   filt |-> f, files |-> 1, bufs |-> 0]
             ELSE IF wfail = "magic"
             THEN [ecode |-> BFI_E_STO_MAGIC, file |-> magic, done |-> FALSE,
                   filt |-> f, files |-> 1, bufs |-> 1]
             ELSE IF wfail = "len"
             THEN [ecode |-> BFI_E_STO_IDX_LEN, file |-> magic \o len, done |-> FALSE,
                   filt |-> f, files |-> 1, bufs |-> 1]
             ELSE IF wfail = "index"
             THEN [ecode |-> BFI_E_STO_INDEX,
                   file |-> magic \o len \o Take(o.bytes, o.len), done |-> FALSE,
                   filt |-> f, files |-> 1, bufs |-> 1]
             ELSE IF wfail = "close"
             THEN [ecode |-> BFI_E_OK,
                   file |-> magic \o len \o Take(o.bytes, o.len), done |-> FALSE,
                   filt |-> bf_clear_bytes(f), files |-> 0, bufs |-> 0]
             ELSE [ecode |-> BFI_E_OK,
                   file |-> magic \o len \o Take(o.bytes, o.len), done |-> TRUE,
                   filt |-> bf_clear_bytes(f), files |-> 0, bufs |-> 0]

\* Faulty variant: the bytes read are never handed to bf_load_filter_from_bytes.
bfi_load_index_norebuild(h, f, fl, mem_ok, new) ==
    LET Fail(e, nb) == [ecode |-> e, handle |-> new, created |-> TRUE,
                        filt |-> new_bloom_filter, files |-> 1, bufs |-> nb]
    IN  IF fl = NoFile
        THEN [ecode |-> BFI_E_LOAD_FILE_ERR, handle |-> h, created |-> FALSE,
              filt |-> f, files |-> 0, bufs |-> 0]
        ELSE IF Len(fl) < SizeofU16
        THEN Fail(BFI_E_LOAD_IDX_LEN, 0)
        ELSE IF ReadLE(SubSeq(fl, 1, SizeofU16)) # BFI_FILE_MAGIC
        THEN Fail(BFI_E_LOAD_BAD_MAGIC, 0)
        ELSE IF Len(fl) < SizeofU16 + SizeofU32
        THEN Fail(BFI_E_LOAD_IDX_LEN, 0)
        ELSE LET index_len == ReadLE(SubSeq(fl, SizeofU16 + 1, SizeofU16 + SizeofU32))
                 rest == Drop(fl, SizeofU16 + SizeofU32)
             IN  IF index_len = 0
                 THEN Fail(BFI_E_LOAD_ZERO_LEN, 0)
                 ELSE IF ~mem_ok
                 THEN Fail(BFI_E_LOAD_MEM, 0)
                 ELSE IF Len(rest) < index_len
                 THEN Fail(BFI_E_LOAD_INDEX, 1)
                 ELSE [ecode |-> BFI_E_OK, handle |-> new, created |-> TRUE,
                       filt |-> new_bloom_filter, files |-> 0, bufs |-> 0]

\* Faulty variant: the length read and checked before the magic.
bfi_load_index_lenfirst(h, f, fl, mem_ok, new) ==
    LET Fail(e, nb) == [ecode |-> e, handle |-> new, created |-> TRUE,
                        filt |-> new_bloom_filter, files |-> 1, bufs |-> nb]
    IN  IF fl = NoFile
        THEN [ecode |-> BFI_E_LOAD_FILE_ERR, handle |-> h, created |-> FALSE,
              filt |-> f, files |-> 0, bufs |-> 0]
        ELSE IF Len(fl) < SizeofU16 + SizeofU32
        THEN Fail(BFI_E_LOAD_IDX_LEN, 0)
        ELSE LET index_len == ReadLE(SubSeq(fl, SizeofU16 + 1, SizeofU16 + SizeofU32))
                 rest == Drop(fl, SizeofU16 + SizeofU32)
             IN  IF index_len = 0
                 THEN Fail(BFI_E_LOAD_ZERO_LEN, 0)
                 ELSE IF ReadLE(SubSeq(fl, 1, SizeofU16)) # BFI_FILE_MAGIC
                 THEN Fail(BFI_E_LOAD_BAD_MAGIC, 0)
                 ELSE IF ~mem_ok
                 THEN Fail(BFI_E_LOAD_MEM, 0)
                 ELSE IF Len(rest) < index_len
                 THEN Fail(BFI_E_LOAD_INDEX, 1)
                 ELSE LET o == bf_load_filter_from_bytes(rest, index_len)
                      IN  IF o.rc # 0
                          THEN Fail(BFI_E_LOAD_BYTES, 1)
                          ELSE [ecode |-> BFI_E_OK, handle |-> new, created |-> TRUE,
                                filt |-> o.f, files |-> 0, bufs |-> 0]

\* [ecode, handle, created, filt, files, bufs].  mem_ok: malloc succeeds.
bfi_load_index(h, f, fl, mem_ok, new) ==
    LET Fail(e, nb) == [ecode |-> e, handle |-> new, created |-> TRUE,
                        filt |-> new_bloom_filter, files |-> 1, bufs |-> nb]
    IN  IF fl = NoFile
        THEN [ecode |-> BFI_E_LOAD_FILE_ERR, handle |-> h, created |-> FALSE,
              filt |-> f, files |-> 0, bufs |-> 0]
        ELSE IF Len(fl) < SizeofU16
        THEN Fail(BFI_E_LOAD_IDX_LEN, 0)
        ELSE IF ReadLE(SubSeq(fl, 1, SizeofU16)) # BFI_FILE_MAGIC
        THEN Fail(BFI_E_LOAD_BAD_MAGIC, 0)
        ELSE IF Len(fl) < SizeofU16 + SizeofU32
        THEN Fail(BFI_E_LOAD_IDX_LEN, 0)
        ELSE LET index_len == ReadLE(SubSeq(fl, SizeofU16 + 1, SizeofU16 + SizeofU32))
                 rest == Drop(fl, SizeofU16 + SizeofU32)
             IN  IF index_len = 0
                 THEN Fail(BFI_E_LOAD_ZERO_LEN, 0)
                 ELSE IF ~mem_ok
                 THEN Fail(BFI_E_LOAD_MEM, 0)
                 ELSE IF Len(rest) < index_len
                 THEN Fail(BFI_E_LOAD_INDEX, 1)
                 ELSE LET o == bf_load_filter_from_bytes(rest, index_len)
                      IN  IF o.rc # 0
                          THEN Fail(BFI_E_LOAD_BYTES, 1)
                          ELSE [ecode |-> BFI_E_OK, handle |-> new, created |-> TRUE,
                                filt |-> o.f, files |-> 0, bufs |-> 0]

(***************************************************************************)
(* Inputs.                                                                 *)
(***************************************************************************)
WriteFailures == {"none", "magic", "len", "index", "close"}

\* What the file can hold after a store handed the bytes w to fwrite: all
\* of them once the stream was closed and flushed, any strict prefix when the
\* store gave up with the stream still open or the flush of fclose failed.
FileAfterWrite(w, done) ==
    IF done THEN {w} ELSE {Take(w, n) : n \in 0..(Len(w) - 1)}

\* Files written by someone else: a valid index, and damaged ones.
SampleFilter ==
    containsinsert(FilterFromParams(compute_optimal_parameters(2, 50)), 1).f

SampleRecord == Record(SampleFilter)

SamplePayload == Drop(SampleRecord, SizeofU16 + SizeofU32)

MagicBytes == WriteLE(BFI_FILE_MAGIC, SizeofU16)

ForeignFiles ==
    { SampleRecord,
      SampleRecord \o <<0>>,
      <<MagicBytes[2], MagicBytes[1]>> \o Drop(SampleRecord, SizeofU16),
      <<MagicBytes[1], 0>> \o WriteLE(0, SizeofU32),
      <<0, 0>>,
      MagicBytes \o WriteLE(0, SizeofU32),
      MagicBytes \o WriteLE(0, SizeofU32) \o SamplePayload,
      MagicBytes \o WriteLE(Len(SamplePayload) + 1, SizeofU32) \o SamplePayload,
      MagicBytes \o WriteLE(Len(SamplePayload), SizeofU32)
          \o [SamplePayload EXCEPT ![1] = 16],
      MagicBytes \o WriteLE(5, SizeofU32) \o Take(SamplePayload, 5) }

(***************************************************************************)
(* Actions: one per library call.                                          *)
(***************************************************************************)
InitIndex(est_item_cnt, fp_prob) ==
    /\ ~ub
    /\ \E o \in {bfi_init_index(handle, est_item_cnt, fp_prob, NewId)} :
           /\ o.created => CanAlloc
           /\ live_bp + o.bp <= MaxBp
           /\ handle' = o.handle
           /\ objs' = IF o.created THEN [objs EXCEPT ![NewId] = "live"] ELSE objs
           /\ filt' = IF o.created THEN o.filt ELSE filt
           /\ live_bp' = live_bp + o.bp
           /\ hist' = IF o.created THEN NewHist(TRUE, 0) ELSE hist
           /\ last' = Call("init", 0, o.ecode, FALSE, 0)
    /\ UNCHANGED <<mt, big, file, open_files, live_bufs, ub, fsrc>>

DestroyIndex ==
    /\ ~ub
    /\ ~Dangling
    /\ \E o \in {bfi_destroy_index(handle)} :
           /\ handle' = o.handle
           /\ objs' = IF o.deleted # NULL THEN [objs EXCEPT ![o.deleted] = "freed"]
                      ELSE objs
    /\ filt' = EmptyFilter
    /\ hist' = NewHist(FALSE, 0)
    /\ last' = Call("destroy", 0, BFI_E_OK, FALSE, 0)
    /\ UNCHANGED <<mt, big, file, open_files, live_bufs, live_bp, ub, fsrc>>

AddAddr(x) ==
    /\ ~ub
    /\ ~Dangling
    /\ \E o \in {bfi_add_addr_index(handle, filt, x)} :
           /\ filt' = o.filt
           /\ last' = Call("add", x, o.ecode, o.r, 0)
           /\ hist' = IF handle = NULL THEN hist
                      ELSE LET exact == hist.exact
                                        /\ ~(x \notin hist.adds
                                             /\ Positions(filt, x) \subseteq filt.bits)
                           IN  [hist EXCEPT
                                  !.ins    = @ \cup {x},
                                  !.adds   = IF exact THEN @ \cup {x} ELSE {},
                                  !.exact  = exact,
                                  !.nfalse = IF o.r THEN @ ELSE @ + 1]
    /\ UNCHANGED <<mt, big, handle, objs, file, open_files, live_bufs, live_bp, ub, fsrc>>

\* bf_insert called on the filter behind the handle (the wrapper does not
\* test its argument, so only a live filter is handed to it).
Insert(x) ==
    /\ ~ub
    /\ Live
    /\ filt' = bf_insert(filt, x)
    /\ last' = Call("insert", x, BFI_E_OK, FALSE,
                    IF last.op = "insert" /\ last.x = x THEN 1 ELSE 0)
    /\ hist' = [hist EXCEPT !.ins = @ \cup {x}, !.adds = {}, !.exact = FALSE]
    /\ UNCHANGED <<mt, big, handle, objs, file, open_files, live_bufs, live_bp, ub, fsrc>>

ClearIndex ==
    /\ ~ub
    /\ ~Dangling
    /\ \E o \in {bfi_clear_index(handle, filt)} :
           /\ filt' = o.filt
           /\ last' = Call("clear", 0, o.ecode, FALSE, 0)
    /\ hist' = IF handle = NULL THEN hist ELSE NewHist(TRUE, 0)
    /\ UNCHANGED <<mt, big, handle, objs, file, open_files, live_bufs, live_bp, ub, fsrc>>

AddrIsStored(x) ==
    /\ ~ub
    /\ ~Dangling
    /\ last' = Call("query", x, BFI_E_OK, bfi_addr_is_stored(handle, filt, x), 0)
    /\ UNCHANGED <<mt, big, handle, objs, filt, file, open_files, live_bufs, live_bp, ub,
                   fsrc, hist>>

StoredItemCnt ==
    /\ ~ub
    /\ ~Dangling
    /\ last' = Call("count", 0, BFI_E_OK, FALSE, bfi_stored_item_cnt(handle, filt))
    /\ UNCHANGED <<mt, big, handle, objs, filt, file, open_files, live_bufs, live_bp, ub,
                   fsrc, hist>>

StoreIndex(fopen_ok, wfail) ==
    /\ ~ub
    /\ ~Dangling
    /\ \E o \in {bfi_store_index(handle, filt, file, fopen_ok, wfail)} :
         /\ open_files + o.files <= MaxLeak
         /\ live_bufs + o.bufs <= MaxLeak
         /\ file' \in FileAfterWrite(o.file, o.done)
         /\ open_files' = open_files + o.files
         /\ live_bufs' = live_bufs + o.bufs
         /\ fsrc' = IF o.ecode \in {BFI_E_NO_INDEX, BFI_E_STO_FILE_ERR} THEN fsrc
                    ELSE IF o.ecode = BFI_E_OK /\ o.done THEN FileSrc("stored", filt)
                    ELSE IF o.ecode = BFI_E_OK THEN FileSrc("unflushed", filt)
                    ELSE FileSrc("partial", filt)
         /\ filt' = o.filt
         /\ last' = Call("store", 0, o.ecode, FALSE, 0)
    /\ UNCHANGED <<mt, big, handle, objs, live_bp, ub, hist>>

LoadIndex(mem_ok) ==
    /\ ~ub
    /\ \E o \in {bfi_load_index(handle, filt, file, mem_ok, NewId)} :
           /\ o.created => CanAlloc
           /\ open_files + o.files <= MaxLeak
           /\ live_bufs + o.bufs <= MaxLeak
           /\ handle' = o.handle
           /\ objs' = IF o.created THEN [objs EXCEPT ![NewId] = "live"] ELSE objs
           /\ filt' = IF o.created THEN o.filt ELSE filt
           /\ open_files' = open_files + o.files
           /\ live_bufs' = live_bufs + o.bufs
           /\ hist' = IF o.created THEN NewHist(FALSE, o.filt.cnt) ELSE hist
           /\ last' = Call("load", 0, o.ecode, FALSE, 0)
    /\ UNCHANGED <<mt, big, file, live_bp, ub, fsrc>>

\* bfi_get_error_msg(ecode); last.b tells whether a table entry came back.
GetErrorMsg(ecode) ==
    /\ ~ub
    /\ \E o \in {bfi_get_error_msg(ecode)} :
         /\ ub' = ~o.defined
         /\ \E msg \in o.msgs :
              last' = Call("errmsg", ecode, BFI_E_OK, msg # "<not a string>", 0)
    /\ UNCHANGED <<mt, big, handle, objs, filt, file, open_files, live_bufs, live_bp,
                   fsrc, hist>>

\* Someone else replaces the index file.
PutFile(c) ==
    /\ ~ub
    /\ file' = c
    /\ fsrc' = FileSrc("foreign", EmptyFilter)
    /\ last' = Call("putfile", 0, BFI_E_OK, FALSE, 0)
    /\ UNCHANGED <<mt, big, handle, objs, filt, open_files, live_bufs, live_bp, ub, hist>>

\* A call that reads or frees the object behind a handle bfi_destroy_index
\* left in place: undefined behaviour, any answer, nothing defined afterwards.
UseAfterFree(op) ==
    /\ ~ub
    /\ Dangling
    /\ ub' = TRUE
    /\ \E b \in BOOLEAN : last' = Call(op, 0, BFI_E_OK, b, 0)
    /\ UNCHANGED <<mt, big, handle, objs, filt, file, open_files, live_bufs, live_bp,
                   fsrc, hist>>

UseOps == {"add", "clear", "query", "count", "store", "destroy"}

(***************************************************************************)
(* Two threads of the caller inside bfi_add_addr_index on one filter.      *)
(* containsinsert is the test of the key's bits, then for every hash the   *)
(* read of the table byte and the write of that byte with the bit set,     *)
(* and the read and the write of the count; none of it is atomic and       *)
(* nothing orders the accesses to the count and those to the table.        *)
(***************************************************************************)
MtItems == {1, 2}
MaxAdds == 3

\* The parameter sets the filter is built with: one where the two keys share
\* no position, one where they share their only position.
MtParams == {<<2, 50>>, <<8, 50>>}

BitsPerByte == 8

\* The position the i-th hash gives the key, and the bits of one table byte.
PositionAt(f, x, i) == Hash(x, f.salt[i]) % f.m
ByteBits(bits, p)   == {q \in bits : q \div BitsPerByte = p \div BitsPerByte}

\* The caller's lock: free, or not used at all.
LockFree(m) == m.lock = 0

\* Whether thread t may enter the add: always without the lock, with it only
\* when it is free.
MayEnter(m, t) == m.use_lock => LockFree(m)

AllIdle == \A t \in Threads : mt.thr[t].pc = "idle"

InitMt ==
    /\ handle = 1
    /\ objs = [i \in ObjIds |-> IF i = 1 THEN "live" ELSE "unalloc"]
    /\ \E p \in MtParams : filt = bfi_init_index(NULL, p[1], p[2], 1).filt
    /\ file = NoFile
    /\ open_files = 0
    /\ live_bufs = 0
    /\ live_bp = 0
    /\ ub = FALSE
    /\ last = Call("init", 0, BFI_E_OK, FALSE, 0)
    /\ fsrc = FileSrc("none", EmptyFilter)
    /\ hist = NewHist(TRUE, 0)
    /\ \E l \in BOOLEAN : mt = [NoThreads EXCEPT !.use_lock = l]
    /\ big = NoBig

MtFrame == UNCHANGED <<handle, objs, file, open_files, live_bufs, live_bp, ub,
                       last, fsrc, hist, big>>

\* bfi_add_addr_index(index_ptr, buffer, len) is called: the caller takes its
\* lock first when it uses one.
MtBegin(t, x) ==
    /\ mt.thr[t].pc = "idle"
    /\ mt.begun < MaxAdds
    /\ handle # NULL
    /\ MayEnter(mt, t)
    /\ mt' = [mt EXCEPT !.thr[t] = [IdleThread EXCEPT !.pc = "test", !.x = x],
                        !.lock = IF mt.use_lock THEN t ELSE @,
                        !.begun = @ + 1]
    /\ filt' = filt
    /\ MtFrame

\* The test of containsinsert.  When it fails the bits are to be set and the
\* count to be incremented.
MtTest(t) ==
    /\ mt.thr[t].pc = "test"
    /\ LET x == mt.thr[t].x
           found == bf_contains(filt, x)
       IN  mt' = [mt EXCEPT !.thr[t].pc = IF found THEN "ret" ELSE "load",
                            !.thr[t].i = 1,
                            !.thr[t].cpc = IF found THEN "none" ELSE "pending",
                            !.exact = @ /\ ~(found /\ x \notin mt.added)]
    /\ filt' = filt
    /\ MtFrame

\* The table byte of the next position is read ...
MtLoad(t) ==
    /\ mt.thr[t].pc = "load"
    /\ mt' = [mt EXCEPT !.thr[t].pc = "store",
                        !.thr[t].tmp =
                            ByteBits(filt.bits, PositionAt(filt, mt.thr[t].x, mt.thr[t].i))]
    /\ filt' = filt
    /\ MtFrame

\* ... and written back with the bit set.
MtStore(t) ==
    /\ mt.thr[t].pc = "store"
    /\ LET p == PositionAt(filt, mt.thr[t].x, mt.thr[t].i)
       IN  filt' = [filt EXCEPT !.bits = (@ \ ByteBits(@, p)) \cup mt.thr[t].tmp \cup {p}]
    /\ mt' = [mt EXCEPT !.thr[t].pc = IF mt.thr[t].i = Len(filt.salt)
                                      THEN "ret" ELSE "load",
                        !.thr[t].i = @ + 1,
                        !.thr[t].tmp = {}]
    /\ MtFrame

\* The count is read, at any moment after the test: nothing orders the
\* accesses to the count and those to the table within one add ...
MtLoadCnt(t) ==
    /\ mt.thr[t].cpc = "pending"
    /\ mt' = [mt EXCEPT !.thr[t].cpc = "loaded", !.thr[t].tmpc = filt.cnt]
    /\ filt' = filt
    /\ MtFrame

\* ... and written back plus one.
MtStoreCnt(t) ==
    /\ mt.thr[t].cpc = "loaded"
    /\ filt' = [filt EXCEPT !.cnt = mt.thr[t].tmpc + 1]
    /\ mt' = [mt EXCEPT !.thr[t].cpc = "done", !.thr[t].tmpc = 0]
    /\ MtFrame

\* The add returns once the bits and the count are written; the caller gives
\* its lock back.
MtReturn(t) ==
    /\ mt.thr[t].pc = "ret"
    /\ mt.thr[t].cpc \in {"none", "done"}
    /\ mt' = [mt EXCEPT !.thr[t] = IdleThread,
                        !.lock = IF @ = t THEN 0 ELSE @,
                        !.added = @ \cup {mt.thr[t].x}]
    /\ filt' = filt
    /\ MtFrame

\* With no add in progress the caller calls bfi_clear_index and from then on
\* wraps every add in its lock.
MtClearAndLock ==
    /\ AllIdle
    /\ ~mt.use_lock
    /\ \E o \in {bfi_clear_index(handle, filt)} :
         /\ filt' = o.filt
         /\ last' = Call("clear", 0, o.ecode, FALSE, 0)
    /\ hist' = NewHist(TRUE, 0)
    /\ mt' = [NoThreads EXCEPT
                !.use_lock = TRUE,
                !.raced = bfi_stored_item_cnt(handle, filt) # Cardinality(mt.added)]
    /\ UNCHANGED <<handle, objs, file, open_files, live_bufs, live_bp, ub, fsrc, big>>

NextMt ==
    \/ \E t \in Threads, x \in MtItems : MtBegin(t, x)
    \/ \E t \in Threads : MtTest(t)
    \/ \E t \in Threads : MtLoad(t)
    \/ \E t \in Threads : MtStore(t)
    \/ \E t \in Threads : MtLoadCnt(t)
    \/ \E t \in Threads : MtStoreCnt(t)
    \/ \E t \in Threads : MtReturn(t)
    \/ MtClearAndLock

SpecMt == InitMt /\ [][NextMt]_vars

(***************************************************************************)
(* Filters too large to hold in the model: only their sizes are computed.  *)
(* A number is a sequence of NumLimbs digits to base 2^16, least           *)
(* significant first (80 bits), so that 64-bit and 32-bit quantities keep  *)
(* their width.                                                            *)
(***************************************************************************)
NumLimbs == 5

BigOf(n)    == [i \in 1..NumLimbs |-> IF i = 1 THEN n % Pow2_16
                                      ELSE IF i = 2 THEN n \div Pow2_16 ELSE 0]
BigPow2(e)  == [i \in 1..NumLimbs |-> IF i = (e \div 16) + 1 THEN 2 ^ (e % 16) ELSE 0]
BigIsZero(a) == \A i \in 1..NumLimbs : a[i] = 0

RECURSIVE BigMulFrom(_, _, _, _)
BigMulFrom(a, c, i, carry) ==
    IF i > NumLimbs THEN <<>>
    ELSE LET v == a[i] * c + carry
         IN  <<v % Pow2_16>> \o BigMulFrom(a, c, i + 1, v \div Pow2_16)

\* a * c and a + c for a small c.
BigMul(a, c) == BigMulFrom(a, c, 1, 0)
BigAdd(a, c) == BigMulFrom(a, 1, 1, c)

RECURSIVE BigPlusFrom(_, _, _, _)
BigPlusFrom(a, b, i, carry) ==
    IF i > NumLimbs THEN <<>>
    ELSE LET v == a[i] + b[i] + carry
         IN  <<v % Pow2_16>> \o BigPlusFrom(a, b, i + 1, v \div Pow2_16)

BigPlus(a, b) == BigPlusFrom(a, b, 1, 0)

RECURSIVE BigDivFrom(_, _, _, _)
BigDivFrom(a, c, i, rem) ==
    IF i = 0 THEN <<>>
    ELSE LET v == rem * Pow2_16 + a[i]
         IN  BigDivFrom(a, c, i - 1, v % c) \o <<v \div c>>

\* a \div c and the ceiling of a / c for a small c.
BigDiv(a, c)     == BigDivFrom(a, c, NumLimbs, 0)
BigCeilDiv(a, c) == BigDiv(BigAdd(a, c - 1), c)

RECURSIVE BigLessFrom(_, _, _)
BigLessFrom(a, b, i) ==
    IF i = 0 THEN FALSE
    ELSE IF a[i] # b[i] THEN a[i] < b[i]
    ELSE BigLessFrom(a, b, i - 1)

BigLess(a, b) == BigLessFrom(a, b, NumLimbs)

\* Whether a fits an unsigned 64-bit integer, and a as uint32_t.
FitsU64(a) == a[NumLimbs] = 0
U32(a)     == [i \in 1..NumLimbs |-> IF i <= 2 THEN a[i] ELSE 0]

\* The optimizer on large counts, for a false positive probability of 50 %:
\* the table size in bits (a multiple of 8), refused when it does not fit the
\* platform's 64-bit size, and the hash count.
BigTableSize(n) == BigMul(BigCeilDiv(BigCeilDiv(BigMul(n, BitsPerItemMilli(50)), 1000), 8), 8)

BigHashCount(n, m) ==
    LET lhs == BigPlus(BigMul(m, 2 * Ln2Milli), BigMul(n, 1000))
        ks  == {k \in 1..MaxSupportedHashes : ~BigLess(lhs, BigMul(BigMul(n, 2000), k))}
    IN  IF ks = {} THEN 1 ELSE CHOOSE k \in ks : \A j \in ks : j <= k

\* [ok, m, k]
big_compute_optimal_parameters(n) ==
    LET m == BigTableSize(n)
    IN  IF BigIsZero(n) \/ ~FitsU64(n) \/ ~FitsU64(m)
        THEN [ok |-> FALSE, m |-> BigOf(0), k |-> 0]
        ELSE [ok |-> TRUE, m |-> m, k |-> BigHashCount(n, m)]

\* The byte length of the serialized filter.
BigPayloadSize(m, k) == BigAdd(BigDiv(m, 8), 8 + 4 + 4 * k + 8)

\* bf_get_filter_as_bytes returns the length as uint32_t.
bf_get_filter_as_bytes_len(size) == U32(size)

\* The filter bloom_filter(bp) builds for a large table: its size (in limbs),
\* its salts, no bit set.
BigFilter(m, k) == [m |-> m, salt |-> GenerateSalts(k), bits |-> {}, cnt |-> 0]

\* bfi_init_index on a large count: [ecode, m, k, handle, created, filt, bp];
\* bp counts the parameter objects left.
big_init_index(h, est_item_cnt, new) ==
    LET bp == big_compute_optimal_parameters(est_item_cnt)
    IN  IF ~bp.ok
        THEN [ecode |-> BFI_E_BP_COMP_PARAMS, m |-> bp.m, k |-> bp.k,
              handle |-> h, created |-> FALSE, filt |-> EmptyFilter, bp |-> 1]
        ELSE [ecode |-> BFI_E_OK, m |-> bp.m, k |-> bp.k,
              handle |-> new, created |-> TRUE, filt |-> BigFilter(bp.m, bp.k),
              bp |-> 0]

\* A record too long to be held byte by byte: its first six bytes (magic and
\* length) and the number of payload bytes that follow them.
BigRecord(index_len) ==
    [head |-> WriteLE(BFI_FILE_MAGIC, SizeofU16)
                \o WriteLE(index_len[1], 2) \o WriteLE(index_len[2], 2),
     payload_len |-> index_len]

\* bfi_store_index with every fopen, fwrite and fclose succeeding: [ecode, len,
\* file, files, bufs], len the payload length written to the file (and the
\* number of payload bytes written after it), the streams and buffers left.
big_store_index(h, m, k, fl) ==
    IF h = NULL
    THEN [ecode |-> BFI_E_NO_INDEX, len |-> BigOf(0), file |-> fl,
          files |-> 0, bufs |-> 0]
    ELSE LET index_len == bf_get_filter_as_bytes_len(BigPayloadSize(m, k))
         IN  IF BigIsZero(index_len)
             THEN [ecode |-> BFI_E_STO_BYTES, len |-> BigOf(0), file |-> <<>>,
                   files |-> 1, bufs |-> 1]
             ELSE [ecode |-> BFI_E_OK, len |-> index_len,
                   file |-> BigRecord(index_len), files |-> 0, bufs |-> 0]

\* Estimated item counts: 2^28 .. 2^39 times small odd factors, the count
\* whose serialized size is exactly 2^32, and 2^64 - 1.
WrapToZeroEst == <<61946, 35651, 5, 0, 0>>
MaxU64        == <<65535, 65535, 65535, 65535, 0>>

BigEsts ==
    {BigMul(BigPow2(e), c) : e \in 28..39, c \in {1, 3, 5, 7, 9}}
        \cup {WrapToZeroEst, MaxU64, BigOf(0)}

BigInitIndex(n) ==
    /\ big.stage = "none"
    /\ ~ub
    /\ \E o \in {big_init_index(handle, n, NewId)} :
         /\ o.created => CanAlloc
         /\ live_bp + o.bp <= MaxBp
         /\ handle' = o.handle
         /\ objs' = IF o.created THEN [objs EXCEPT ![NewId] = "live"] ELSE objs
         /\ filt' = IF o.created THEN o.filt ELSE filt
         /\ live_bp' = live_bp + o.bp
         /\ hist' = IF o.created THEN NewHist(TRUE, 0) ELSE hist
         /\ last' = Call("init", 0, o.ecode, FALSE, 0)
         /\ big' = [stage |-> IF o.ecode = BFI_E_OK THEN "ready" ELSE "failed",
                    est |-> n, ecode |-> o.ecode, m |-> o.m, k |-> o.k,
                    size |-> BigOf(0), len |-> BigOf(0)]
    /\ UNCHANGED <<mt, file, open_files, live_bufs, ub, fsrc>>

BigStoreIndex ==
    /\ big.stage = "ready"
    /\ ~ub
    /\ \E o \in {big_store_index(handle, big.m, big.k, file)} :
         /\ open_files + o.files <= MaxLeak
         /\ live_bufs + o.bufs <= MaxLeak
         /\ file' = o.file
         /\ open_files' = open_files + o.files
         /\ live_bufs' = live_bufs + o.bufs
         /\ fsrc' = IF o.ecode = BFI_E_NO_INDEX THEN fsrc
                    ELSE IF o.ecode = BFI_E_OK THEN FileSrc("stored", filt)
                    ELSE FileSrc("partial", filt)
         /\ last' = Call("store", 0, o.ecode, FALSE, 0)
         /\ big' = [big EXCEPT !.stage = "stored", !.ecode = o.ecode,
                               !.size = BigPayloadSize(big.m, big.k),
                               !.len = o.len]
    /\ UNCHANGED <<mt, handle, objs, filt, live_bp, ub, hist>>

NextLen ==
    \/ \E n \in BigEsts : BigInitIndex(n)
    \/ BigStoreIndex

SpecLen == Init /\ [][NextLen]_vars

Next ==
    \/ \E n \in EstItemCnts, p \in FpProbs : InitIndex(n, p)
    \/ DestroyIndex
    \/ \E x \in Items : AddAddr(x)
    \/ \E x \in Items : Insert(x)
    \/ ClearIndex
    \/ \E x \in Items : AddrIsStored(x)
    \/ StoredItemCnt
    \/ StoreIndex(TRUE, "none")
    \/ LoadIndex(TRUE)
    \/ \E op \in UseOps : UseAfterFree(op)

Spec == Init /\ [][Next]_vars

\* The same library with one parameter set and one key, and with every
\* failure of the file system and of malloc.
NextIO ==
    \/ InitIndex(2, 50)
    \/ DestroyIndex
    \/ \E x \in IOItems : AddAddr(x)
    \/ StoreIndex(FALSE, "none")
    \/ \E w \in WriteFailures : StoreIndex(TRUE, w)
    \/ \E ok \in BOOLEAN : LoadIndex(ok)
    \/ \E c \in ForeignFiles : PutFile(c)

SpecIO == Init /\ [][NextIO]_vars

\* The same, with the message of any error code asked for.
NextMsg ==
    \/ InitIndex(2, 50)
    \/ DestroyIndex
    \/ \E x \in IOItems : AddAddr(x)
    \/ StoreIndex(FALSE, "none")
    \/ \E w \in WriteFailures : StoreIndex(TRUE, w)
    \/ \E ok \in BOOLEAN : LoadIndex(ok)
    \/ \E c \in ForeignFiles : PutFile(c)
    \/ \E e \in ECodes : GetErrorMsg(e)

SpecMsg == Init /\ [][NextMsg]_vars

\* The same, with the calls that only read the filter.
NextRO ==
    \/ InitIndex(2, 50)
    \/ DestroyIndex
    \/ \E x \in IOItems : AddAddr(x)
    \/ \E x \in IOItems : AddrIsStored(x)
    \/ StoredItemCnt
    \/ StoreIndex(FALSE, "none")
    \/ \E w \in WriteFailures : StoreIndex(TRUE, w)
    \/ \E ok \in BOOLEAN : LoadIndex(ok)
    \/ \E c \in ForeignFiles : PutFile(c)

SpecRO == Init /\ [][NextRO]_vars

\* Every call that takes the handle by value, with the files of others and
\* a failing fopen, and with every write reaching the file.
NextNull ==
    \/ InitIndex(2, 50)
    \/ DestroyIndex
    \/ \E x \in IOItems : AddAddr(x)
    \/ ClearIndex
    \/ \E x \in IOItems : AddrIsStored(x)
    \/ StoredItemCnt
    \/ StoreIndex(FALSE, "none")
    \/ StoreIndex(TRUE, "none")
    \/ \E ok \in BOOLEAN : LoadIndex(ok)
    \/ \E c \in ForeignFiles : PutFile(c)

SpecNull == Init /\ [][NextNull]_vars

(***************************************************************************)
(* Properties.                                                             *)
(***************************************************************************)
Ready == Live /\ filt.m # 0

Count == bfi_stored_item_cnt(handle, filt)

\* C1: no false negatives.  Every key handed to add or insert since the
\* designated filter was created or last cleared is reported present by
\* bfi_addr_is_stored, in every state reached by any calls (store, count and
\* query included); a query of such a key has returned true.
C1_NoFalseNegatives ==
    ~ub =>
      /\ \A x \in hist.ins : bfi_addr_is_stored(handle, filt, x)
      /\ (last.op = "query" /\ last.x \in hist.ins) => last.b

\* C1 witness: a query returned true for a key after two keys went in, one
\* of them through add, and the filter had been stored.
C1_Witness ==
    /\ ~ub /\ Ready
    /\ last.op = "query" /\ last.x \in hist.ins /\ last.b
    /\ Cardinality(hist.ins) = 2
    /\ filt.cnt >= 1
    /\ fsrc.kind = "stored"

\* C2: an add on a Ready filter.  If every position of the key is set
\* already, containsinsert returns true and the filter (bit array, count,
\* parameters) is unchanged; otherwise the bit array becomes the old one plus
\* the positions of the key, the count grows by exactly 1 and containsinsert
\* returns false.  The facade returns BFI_E_OK either way.
C2_Step ==
    (Ready /\ ~ub' /\ last'.op = "add") =>
      /\ last'.ecode = BFI_E_OK
      /\ IF Positions(filt, last'.x) \subseteq filt.bits
         THEN last'.b /\ filt' = filt
         ELSE /\ ~last'.b
              /\ filt'.bits = filt.bits \cup Positions(filt, last'.x)
              /\ filt'.cnt = filt.cnt + 1
              /\ filt'.m = filt.m /\ filt'.salt = filt.salt

C2_ContainsInsert == [][C2_Step]_vars

\* C2 witness: an add found its key present after two other adds had been
\* counted.
C2_Witness ==
    /\ ~ub /\ Ready
    /\ last.op = "add" /\ last.b /\ last.ecode = BFI_E_OK
    /\ filt.cnt = 2

\* C3 as stated: the item count equals the number of containsinsert calls
\* that returned false since the designated filter was created or last
\* cleared.
C3_CountIsCallsSinceCreation == ~ub => Count = hist.nfalse

\* C3 amended: the item count equals the count the filter started with when
\* it was created or last cleared (0 after bfi_init_index or clear, the stored
\* count after bfi_load_index) plus the number of containsinsert calls that
\* returned false since; insert, query, count and store calls never change
\* it, and it never decreases except by clear or by a new filter taking the
\* handle.
C3_Inv == ~ub => Count = hist.base + hist.nfalse

C3_Step ==
    ~ub' =>
      /\ last'.op \in {"insert", "query", "count", "store"} => filt'.cnt = filt.cnt
      /\ last'.op \notin {"clear", "init", "load", "destroy"} => filt'.cnt >= filt.cnt

C3_CountFromBase == [](C3_Inv) /\ [][C3_Step]_vars

\* C3 witness: a loaded filter that came with count 1 was counted at 2 after
\* one more containsinsert returned false.
C3_Witness ==
    /\ ~ub /\ Ready
    /\ last.op = "count" /\ last.n = 2
    /\ hist.base = 1 /\ hist.nfalse = 1

\* C4: distinct counting.  On a filter that started empty and has seen only
\* add calls, none of them a first add of a key whose positions were all set
\* already, the item count equals the number of distinct keys added.
C4_DistinctCounting ==
    (~ub /\ Ready /\ hist.exact) => Count = Cardinality(hist.adds)

\* C4 witness: two distinct keys were added, one of them repeatedly, and the
\* count is 2.
C4_Witness ==
    /\ ~ub /\ Ready /\ hist.exact
    /\ Cardinality(hist.adds) = 2
    /\ last.op = "add" /\ last.b
    /\ Count = 2

\* C5: clear on a Ready filter leaves every bit zero and the count 0, keeps
\* table size and salts, and so leaves the filter equal to one just built
\* with the same parameters; as long as no key goes in again every query
\* answers false.
C5_Inv ==
    /\ (~ub /\ Ready /\ last.op = "clear") =>
         /\ last.ecode = BFI_E_OK
         /\ filt.bits = {} /\ Count = 0
    /\ (~ub /\ Ready /\ hist.exact /\ hist.ins = {}) =>
         /\ \A x \in Items : ~bfi_addr_is_stored(handle, filt, x)
         /\ last.op = "query" => ~last.b

C5_Step ==
    (Ready /\ ~ub' /\ last'.op = "clear") =>
      filt' = new_bloom_filter_bp([m |-> filt.m, salt |-> filt.salt])

C5_ClearResets == [](C5_Inv) /\ [][C5_Step]_vars

\* C5 witness: a query answered false on a filter that had been stored with
\* bits set and was cleared afterwards.
C5_Witness ==
    /\ ~ub /\ Ready /\ hist.exact /\ hist.ins = {}
    /\ last.op = "query" /\ ~last.b
    /\ fsrc.kind = "stored" /\ fsrc.f.bits # {} /\ fsrc.f.salt = filt.salt
    /\ hist.base = 0

\* C6: store/load round trip.  When a load succeeds on a file a complete
\* store wrote, the loaded filter gives the answer of the stored one to
\* every query and has its item count, its parameters and its bit pattern.
C6_RoundTrip ==
    (~ub /\ last.op = "load" /\ last.ecode = BFI_E_OK /\ fsrc.kind = "stored") =>
      /\ Live
      /\ \A x \in Items :
           bfi_addr_is_stored(handle, filt, x) = bfi_addr_is_stored(handle, fsrc.f, x)
      /\ Count = bfi_stored_item_cnt(handle, fsrc.f)
      /\ filt.m = fsrc.f.m /\ filt.salt = fsrc.f.salt /\ filt.bits = fsrc.f.bits

\* C6 witness: a filter holding one key and not the other, with count 1, was
\* stored and loaded back.
C6_Witness ==
    /\ ~ub /\ last.op = "load" /\ last.ecode = BFI_E_OK /\ fsrc.kind = "stored"
    /\ fsrc.f.cnt = 1
    /\ \E x, y \in Items : contains(fsrc.f, x) /\ ~contains(fsrc.f, y)

\* What the header of a file says.
HasMagicBytes(fl) == fl # NoFile /\ Len(fl) >= SizeofU16
FileMagic(fl)     == ReadLE(SubSeq(fl, 1, SizeofU16))
HasLength(fl)     == fl # NoFile /\ Len(fl) >= SizeofU16 + SizeofU32
FileLength(fl)    == ReadLE(SubSeq(fl, SizeofU16 + 1, SizeofU16 + SizeofU32))
FilePayload(fl)   == SubSeq(fl, SizeofU16 + SizeofU32 + 1, Len(fl))

\* C7: a load of a file whose first two bytes differ from the magic fails
\* with BFI_E_LOAD_BAD_MAGIC, creates no filter object and leaves the
\* caller's handle as it was.
C7_Step ==
    (~ub' /\ last'.op = "load" /\ HasMagicBytes(file) /\ FileMagic(file) # BFI_MAGIC) =>
      /\ last'.ecode = BFI_E_LOAD_BAD_MAGIC
      /\ handle' = handle
      /\ objs' = objs

C7_BadMagicLeavesNothing == [][C7_Step]_vars

\* C8: the file a successful store leaves is the 16-bit magic at offset 0,
\* the 32-bit payload length at offset 2, and from offset 6 exactly that many
\* bytes, which are the serialized filter; nothing else.
C8_FileLayout ==
    (~ub /\ last.op = "store" /\ last.ecode = BFI_E_OK) =>
      /\ HasLength(file)
      /\ FileMagic(file) = BFI_MAGIC
      /\ FileLength(file) = Len(filter_as_bytes(filt))
      /\ FileLength(file) > 0
      /\ Len(file) = SizeofU16 + SizeofU32 + FileLength(file)
      /\ FilePayload(file) = filter_as_bytes(filt)

\* A payload is consistent when its declared table size and hash count
\* account for its length.
Consistent(pl) ==
    /\ Len(pl) >= 12
    /\ ReadLE(SubSeq(pl, 1, 8)) # 0
    /\ ReadLE(SubSeq(pl, 9, 12)) # 0
    /\ Len(pl) = PayloadSize(ReadLE(SubSeq(pl, 1, 8)), ReadLE(SubSeq(pl, 9, 12)))

\* C9: load validates in a fixed order and reports the first stage that
\* fails: a magic that cannot be read (BFI_E_LOAD_IDX_LEN) or differs
\* (BFI_E_LOAD_BAD_MAGIC), whatever follows it; then a length that cannot be
\* read (BFI_E_LOAD_IDX_LEN) or is 0 (BFI_E_LOAD_ZERO_LEN); then fewer payload
\* bytes than the length says (BFI_E_LOAD_INDEX); then an inconsistent payload
\* (BFI_E_LOAD_BYTES); BFI_E_OK only when every stage passes.  Between the
\* length and the payload the buffer allocation may fail (BFI_E_LOAD_MEM).
C9_LoadStages ==
    (~ub /\ last.op = "load" /\ file # NoFile) =>
      IF ~HasMagicBytes(file) THEN last.ecode = BFI_E_LOAD_IDX_LEN
      ELSE IF FileMagic(file) # BFI_MAGIC THEN last.ecode = BFI_E_LOAD_BAD_MAGIC
      ELSE IF ~HasLength(file) THEN last.ecode = BFI_E_LOAD_IDX_LEN
      ELSE IF FileLength(file) = 0 THEN last.ecode = BFI_E_LOAD_ZERO_LEN
      ELSE \/ last.ecode = BFI_E_LOAD_MEM
           \/ IF Len(FilePayload(file)) < FileLength(file)
              THEN last.ecode = BFI_E_LOAD_INDEX
              ELSE IF ~Consistent(Take(FilePayload(file), FileLength(file)))
              THEN last.ecode = BFI_E_LOAD_BYTES
              ELSE last.ecode = BFI_E_OK

\* C9 witness: a file with a wrong magic and a zero length was rejected for
\* its magic.
C9_Witness ==
    /\ ~ub /\ last.op = "load" /\ HasLength(file)
    /\ FileMagic(file) # BFI_MAGIC /\ FileLength(file) = 0
    /\ last.ecode = BFI_E_LOAD_BAD_MAGIC

IsStrictPrefix(s, t) == Len(s) < Len(t) /\ s = Take(t, Len(s))

\* C10: a store that gives up after opening the file leaves a strict prefix
\* of the full record (the empty file included), and a load of such a file
\* returns an error, never BFI_E_OK.  The same holds for the prefix left by
\* a store whose last flush failed.
C10_PartialFileIsRejected ==
    (~ub /\ fsrc.kind \in {"partial", "unflushed"}) =>
      /\ file # NoFile
      /\ IsStrictPrefix(file, Record(fsrc.f))
      /\ (last.op = "store" /\ fsrc.kind = "partial") => last.ecode # BFI_E_OK
      /\ last.op = "load" => last.ecode \in {BFI_E_LOAD_IDX_LEN, BFI_E_LOAD_MEM,
                                             BFI_E_LOAD_INDEX}

\* C10 witness: a file cut inside the payload was loaded and rejected.
C10_Witness ==
    /\ ~ub /\ fsrc.kind = "partial"
    /\ last.op = "load" /\ last.ecode = BFI_E_LOAD_INDEX
    /\ Len(file) > SizeofU16 + SizeofU32 + 12

\* C11: bfi_destroy_index frees the filter and sets the caller's handle to
\* NULL, so no later call uses the freed filter: every destroy step leaves
\* the handle NULL and no step uses a freed object.
C11_Step ==
    ~ub => /\ ~ub'
           /\ last'.op = "destroy" => handle' = NULL

C11_DestroyNullsHandle == [][C11_Step]_vars

\* Invalid input of initialization: no estimated item, or a false positive
\* probability not strictly between 0 and 1.
InvalidInput(est_item_cnt, fp_prob) ==
    est_item_cnt = 0 \/ fp_prob <= 0 \/ fp_prob >= 100

\* C12: bfi_init_index with invalid input returns an error code; a failing
\* initialization builds no filter, leaves the caller's handle and the
\* filter behind it unchanged and leaves no parameter object allocated.
C12_Step ==
    /\ \A n \in EstItemCnts, p \in FpProbs :
         InvalidInput(n, p) => bfi_init_index(handle, n, p, NewId).ecode # BFI_E_OK
    /\ (~ub' /\ last'.op = "init" /\ last'.ecode # BFI_E_OK) =>
         /\ handle' = handle
         /\ objs' = objs
         /\ filt' = filt
         /\ live_bp' = live_bp

C12_InvalidInitLeavesNothing == [][C12_Step]_vars

\* C13: lifecycle.  After a successful bfi_init_index or bfi_load_index the
\* handle designates a Ready filter, and a live filter behind the handle is
\* never a parameter-less one, whatever calls failed before.
C13_Lifecycle ==
    ~ub =>
      /\ (last.op \in {"init", "load"} /\ last.ecode = BFI_E_OK) => Ready
      /\ Live => filt.m # 0

LiveObjs == {i \in ObjIds : objs[i] = "live"}

\* C14: exclusive ownership.  At most one filter object is alive, and a live
\* filter object is the one the handle designates.
C14_ExclusiveOwnership ==
    /\ Cardinality(LiveObjs) <= 1
    /\ \A i \in LiveObjs : handle = i

\* C18: after any sequence of store and load calls the library holds no open
\* file and no serialization buffer.
C18_NoResourceLeft == open_files = 0 /\ live_bufs = 0

\* C16: idempotent insert.  An insert of the key the call before it inserted
\* leaves the bit array and the parameters as they were after that first
\* insert, and the key is reported present after the first and after the
\* second.
C16_Step ==
    (~ub' /\ Live /\ last.op = "insert" /\ last'.op = "insert" /\ last'.x = last.x) =>
      /\ filt'.bits = filt.bits
      /\ filt'.m = filt.m /\ filt'.salt = filt.salt
      /\ bf_contains(filt, last.x)
      /\ bf_contains(filt', last.x)

C16_IdempotentInsert == [][C16_Step]_vars

\* C16 witness: a key was inserted twice in a row into a filter that also
\* holds bits of another key.
C16_Witness ==
    /\ ~ub /\ Ready
    /\ last.op = "insert" /\ last.n = 1
    /\ filt.bits # Positions(filt, last.x)
    /\ Cardinality(hist.ins) = 2

\* C17: query, item count and store are read-only on the filter.  A query,
\* count or store step, whatever the store returns, leaves the bit array, the
\* count and the parameters of the designated filter (and the handle) as they
\* were, so a query repeated in the state it leaves gives the answer it gave.
C17_Inv ==
    (~ub /\ ~Dangling /\ last.op = "query") =>
      last.b = bfi_addr_is_stored(handle, filt, last.x)

C17_Step ==
    (~ub' /\ last'.op \in {"query", "count", "store"}) =>
      /\ filt' = filt
      /\ handle' = handle

C17_ReadOnly == [](C17_Inv) /\ [][C17_Step]_vars

\* C17 witness: a store of a filter holding a key gave up inside the payload.
C17_Witness ==
    /\ ~ub /\ Ready
    /\ last.op = "store" /\ last.ecode = BFI_E_STO_INDEX
    /\ filt.bits # {} /\ filt.cnt = 1

\* C20: bfi_get_error_msg returns an entry of the message table for every
\* value of bfi_ecode_t: the code used as index is smaller than the number of
\* entries of bfi_error_messages.
C20_MessageForEveryCode ==
    last.op = "errmsg" =>
      /\ last.x \in ECodes
      /\ last.x < Len(bfi_error_messages)
      /\ ~ub

\* C15 as stated, the locked half: with every add wrapped in one lock of
\* the caller no added key is reported absent and, whenever the lock is free,
\* the item count is the number of distinct keys added.
C15_LockedCountIsDistinct ==
    mt.use_lock =>
      /\ \A x \in mt.added : bfi_addr_is_stored(handle, filt, x)
      /\ LockFree(mt) => Count = Cardinality(mt.added)

\* C15: with every add wrapped in one lock of the caller, in no state
\* reached by two threads is an added key reported absent, and whenever the
\* lock is free the item count is the number of distinct keys added,
\* provided that no key found all its positions set by other keys at its
\* first add.  (Without the lock a state with a different count is reached:
\* the witness records it.)
C15_LockedAddsAreExact ==
    mt.use_lock =>
      /\ \A x \in mt.added : bfi_addr_is_stored(handle, filt, x)
      /\ (LockFree(mt) /\ mt.exact) => Count = Cardinality(mt.added)

\* C15 witness: the adds two threads made without the lock left a count
\* different from the number of distinct keys added; after a clear, under the
\* lock, both keys were added, one of them twice, and the count is 2.
C15_Witness ==
    /\ mt.raced
    /\ mt.use_lock /\ LockFree(mt) /\ AllIdle
    /\ mt.exact /\ mt.added = MtItems /\ mt.begun = 3
    /\ Count = 2

\* C19: the 32-bit payload length a successful store writes is the true
\* byte length of the serialized filter; when that length does not fit 32
\* bits, initialization or store has failed with an error.
C19_LengthNeverWraps ==
    (big.stage = "stored" /\ big.ecode = BFI_E_OK) => big.len = big.size


ByValueOps == {"add", "clear", "query", "count", "store"}

\* C21: every call that takes the handle by value reports a NULL handle as
\* a value and touches nothing.  On a NULL handle add, clear and store return
\* BFI_E_NO_INDEX, a query returns false and the item count is 0; the step
\* leaves the handle, the filter objects, the file (created or not, whatever
\* it holds), the open streams, the buffers and the parameter objects as they
\* were, and what follows stays defined.
C21_Step ==
    (~ub /\ handle = NULL /\ last'.op \in ByValueOps) =>
      /\ ~ub'
      /\ last'.op \in {"add", "clear", "store"} => last'.ecode = BFI_E_NO_INDEX
      /\ last'.op = "query" => last'.b = FALSE
      /\ last'.op = "count" => last'.n = 0
      /\ UNCHANGED <<handle, objs, filt, file, open_files, live_bufs, live_bp,
                     fsrc, hist>>

C21_NullHandleIsReported == [][C21_Step]_vars

\* C21 witness: with no filter behind the handle a store over an existing
\* valid index file came back with BFI_E_NO_INDEX and the file is as it was.
C21_Witness ==
    /\ ~ub /\ handle = NULL
    /\ last.op = "store" /\ last.ecode = BFI_E_NO_INDEX
    /\ file = SampleRecord
    /\ open_files = 0


\* C22: a store that fails with BFI_E_STO_BYTES has written no byte and a
\* file that existed at the destination holds what it held before, so an
\* index stored there earlier can still be loaded.
C22_Step ==
    (~ub' /\ last'.op = "store" /\ last'.ecode = BFI_E_STO_BYTES /\ file # NoFile) =>
      file' = file

C22_FailedStoreKeepsFile == [][C22_Step]_vars

=============================================================================
